---- MODULE Spec2Model ----
(***************************************************************************)
(* pdcurses string insertion (pdc_insstr.c): winsnstr / wins_nwstr and the *)
(* forwarding entry points, for both build configurations                  *)
(* (CONFIG_PDCURSES_WIDE set or not).                                      *)
(*                                                                         *)
(* A C string is the sequence of its bytes up to and including the         *)
(* terminating 0; index i of the C code is element i+1 of the sequence.    *)
(* The object ends at the terminator: a read past it is undefined          *)
(* behaviour, modelled as a choice between a fault and an arbitrary value. *)
(***************************************************************************)
EXTENDS Integers, Sequences, FiniteSets, TLC

\* ------------------------------------------------------------------ bounds
MaxY == 2        \* rows of a window
MaxX == 3        \* columns of a window
MaxLen == 2      \* length of the short sources
MaxFail == 2     \* the failing winsch call is one of the first MaxFail
LongLen == 600   \* length of the longest source

\* ------------------------------------------------------- program constants
WSTR_CAP == 512     \* if (n > 512) n = 512;
WSTR_SIZE == 513    \* wchar_t wstr[513]

NULL == "NULL"      \* the null WINDOW pointer
NULLSTR == << >>    \* the null string pointer: no object, not even a terminator
OK == "OK"
ERR == "ERR"
FAULT == "FAULT"    \* the request died on a read outside the source object

WinIds == {"stdscr", "w1"}

Chars == {65, 66}
WChars == {65, 233}
TailVals == {0, 90}                \* what a read past the terminator may yield
\* outcome of a read past the terminator: << >> is a fault, <<v>> the value v
OobOutcomes == {<< >>} \cup {<<v>> : v \in TailVals}

RECURSIVE SeqsUpTo(_, _)
SeqsUpTo(S, k) ==
  IF k = 0 THEN {<< >>}
  ELSE LET prev == SeqsUpTo(S, k - 1)
       IN prev \cup {Append(s, c) : s \in {t \in prev : Len(t) = k - 1}, c \in S}

CStr(s) == Append(s, 0)

\* single-byte text of length L whose bytes tell their position
LongStr(L) == [i \in 1..(L + 1) |-> IF i = L + 1 THEN 0 ELSE 1 + (i % 100)]
\* WSTR_CAP-1 single bytes, then a two-byte character straddling the cap
LongMb == [i \in 1..(WSTR_CAP + 2) |->
             IF i < WSTR_CAP THEN 1 + (i % 100)
             ELSE IF i = WSTR_CAP THEN -61
             ELSE IF i = WSTR_CAP + 1 THEN -87 ELSE 0]

\* char values as the C code sees them on a signed-char build: -61 and -87
\* are the bytes 0xC3 0xA9, a two-byte multibyte character.  The character
\* whole, after and before a single byte, cut short, and its second byte alone.
MbStrs == {<<-61, -87, 0>>, <<65, -61, -87, 0>>, <<-61, -87, 66, 0>>,
           <<65, -61, 0>>, <<-87, 65, 0>>}
ShortStrs == {CStr(s) : s \in SeqsUpTo(Chars, MaxLen)} \cup MbStrs
LongStrs == {LongStr(WSTR_CAP - 1), LongStr(WSTR_CAP + 1), LongStr(LongLen), LongMb}
ShortWStrs == {CStr(s) : s \in SeqsUpTo(WChars, MaxLen)}
LongWStrs == {LongStr(LongLen)}

\* --------------------------------------------------------------- the state
VARIABLES
  wide,     \* build configuration: CONFIG_PDCURSES_WIDE
  wins,     \* the windows: cursor (cury, curx) and lines y[row][col]
  pc,       \* "idle" before the request, "done" after it
  req,      \* the request made: entry point and arguments
  rc,       \* its return value
  calls,    \* the units handed to winsch, in call order (a failing call included)
  idxs,     \* for each winsch call, the source (or wstr) index the unit came from
  wbuf,     \* wide winsnstr: wstr[0 .. p - wstr - 1] when decoding stopped
  steps,    \* wide winsnstr: the values PDC_mbtowc returned, in call order
  old       \* the windows before the request

vars == <<wide, wins, pc, req, rc, calls, idxs, wbuf, steps, old>>

Rows == 0..(MaxY - 1)
Cols == 0..(MaxX - 1)

\* --------------------------------------------------------- C string helpers
\* Loops are run as `count` iterations in sequence, the loop's state threaded
\* through them, an iteration after the loop's exit changing nothing; the
\* sequence is split in halves so that the evaluation stays shallow.

\* the element of a one-element set: binds the state between the two halves
Only(S) == CHOOSE v \in S : TRUE

\* for (len = 0, p = str; *p; p++) len++;   one iteration, len the state
ScanStep(str, len) == IF len < Len(str) /\ str[len + 1] # 0 THEN len + 1 ELSE len

RECURSIVE ScanIter(_, _, _)
ScanIter(str, len, count) ==
  IF count = 0 THEN len
  ELSE IF count = 1 THEN ScanStep(str, len)
  ELSE Only({ScanIter(str, mid, count - (count \div 2)) :
               mid \in {ScanIter(str, len, count \div 2)}})

\* strlen(str): scan to the first 0
strlen(str) == ScanIter(str, 0, Len(str))

\* str[i]; oobv is the outcome of a read past the terminator (the requests
\* drawn below make one such read at most)
StrAt(str, i, oobv) == IF i < Len(str) THEN str[i + 1] ELSE oobv[1]

\* ------------------------------------------------------------ collaborators
\* winsch(win, ch): one cell inserted at the cursor column of the cursor line,
\* the cells from the cursor on moved one to the right, the last one dropped,
\* the cursor left alone.  k is the ordinal of this call within the request
\* and fail the ordinal of the call that fails (0: none does).
winsch(ws, win, ch, k, fail) ==
  IF win = NULL \/ k = fail
  THEN [rc |-> ERR, ws |-> ws]
  ELSE LET w == ws[win]
           line == w.y[w.cury]
           shifted == [x \in Cols |-> IF x < w.curx THEN line[x]
                                      ELSE IF x = w.curx THEN ch
                                      ELSE line[x - 1]]
       IN [rc |-> OK, ws |-> [ws EXCEPT ![win].y[w.cury] = shifted]]

\* wmove(win, y, x): the cursor set when (y, x) lies in the window
wmove(ws, win, y, x) ==
  IF win = NULL \/ y \notin Rows \/ x \notin Cols
  THEN [rc |-> ERR, ws |-> ws]
  ELSE [rc |-> OK, ws |-> [ws EXCEPT ![win].cury = y, ![win].curx = x]]

\* PDC_mbtowc(pwc, s, n) with s = str + i: one character decoded from at most
\* n bytes; retval is the number of bytes consumed, 0 at the terminator, -1
\* when nothing can be decoded.  One- and two-byte UTF-8.
PDC_mbtowc(str, i, n, oobv) ==
  IF n < 1 THEN [retval |-> -1, wc |-> 0]
  ELSE LET b0 == StrAt(str, i, oobv) % 256 IN
       IF b0 = 0 THEN [retval |-> 0, wc |-> 0]
       ELSE IF b0 < 128 THEN [retval |-> 1, wc |-> b0]
       ELSE IF b0 \div 32 = 6 /\ n > 1 /\ (StrAt(str, i + 1, oobv) % 256) \div 64 = 2
            THEN [retval |-> 2,
                  wc |-> (b0 % 32) * 64 + ((StrAt(str, i + 1, oobv) % 256) % 64)]
       ELSE [retval |-> -1, wc |-> 0]

\* ------------------------------------------------------------------ the code
\* what a request has done so far; n is the loop variable (n, or p - wstr)
Outcome(r, ws, n, d) ==
  [rc |-> r, ws |-> ws, calls |-> << >>, idxs |-> << >>, n |-> n,
   wstr |-> d.wstr, steps |-> d.steps]

\* p = wstr; i = 0;
NoDecode == [wstr |-> << >>, steps |-> << >>, i |-> 0, brk |-> FALSE]

\* mutant: a negative limit selects nothing
ClampCount_NegZero(n, len) == IF n < 0 THEN 0 ELSE IF n < len THEN len ELSE n

\* if (n < 0 || n < len) n = len;
ClampCount(n, len) == IF n < 0 \/ n < len THEN len ELSE n

\* mutant: the result of winsch is not looked at
BackStep_IgnoreErr(o, win, str, fail, oobv, narrow) ==
  IF o.rc # OK \/ o.n = 0 THEN o
  ELSE LET i == o.n - 1 IN
       IF i >= Len(str) /\ oobv = << >> THEN [o EXCEPT !.rc = FAULT]
       ELSE LET c == StrAt(str, i, oobv)
                ch == IF narrow THEN c % 256 ELSE c
                r == winsch(o.ws, win, ch, Len(o.calls) + 1, fail)
            IN [o EXCEPT !.ws = r.ws, !.n = i,
                         !.calls = Append(@, ch), !.idxs = Append(@, i)]

\* mutant: str[n--] for str[--n]
BackStep_PostDec(o, win, str, fail, oobv, narrow) ==
  IF o.rc # OK \/ o.n = 0 THEN o
  ELSE LET i == o.n IN
       IF i >= Len(str) /\ oobv = << >> THEN [o EXCEPT !.rc = FAULT]
       ELSE LET c == StrAt(str, i, oobv)
                ch == IF narrow THEN c % 256 ELSE c
                r == winsch(o.ws, win, ch, Len(o.calls) + 1, fail)
            IN [o EXCEPT !.rc = r.rc, !.ws = r.ws, !.n = i - 1,
                         !.calls = Append(@, ch), !.idxs = Append(@, i)]

\* one iteration of  while (n) { if (winsch(win, str[--n]) == ERR) return ERR; }
\* narrow: the unit is cast to unsigned char (winsnstr); otherwise it is
\* passed as it is (wins_nwstr)
BackStep(o, win, str, fail, oobv, narrow) ==
  IF o.rc # OK \/ o.n = 0 THEN o
  ELSE LET i == o.n - 1 IN
       IF i >= Len(str) /\ oobv = << >> THEN [o EXCEPT !.rc = FAULT]
       ELSE LET c == StrAt(str, i, oobv)
                ch == IF narrow THEN c % 256 ELSE c
                r == winsch(o.ws, win, ch, Len(o.calls) + 1, fail)
            IN [o EXCEPT !.rc = r.rc, !.ws = r.ws, !.n = i,
                         !.calls = Append(@, ch), !.idxs = Append(@, i)]

RECURSIVE BackIter(_, _, _, _, _, _, _)
BackIter(o, count, win, str, fail, oobv, narrow) ==
  IF count = 0 THEN o
  ELSE IF count = 1 THEN BackStep(o, win, str, fail, oobv, narrow)
  ELSE Only({BackIter(mid, count - (count \div 2), win, str, fail, oobv, narrow) :
               mid \in {BackIter(o, count \div 2, win, str, fail, oobv, narrow)}})

\* mutant: the first selected unit is inserted first, the last one last
InsertBackward_Forward(ws, win, str, n, fail, oobv, narrow) ==
  BackIter(Outcome(OK, ws, n, NoDecode), n, win,
           [k \in 1..Len(str) |-> IF k <= n /\ n <= Len(str) THEN str[n + 1 - k] ELSE str[k]],
           fail, oobv, narrow)

\* while (n) { if (winsch(win, str[--n]) == ERR) return ERR; }
InsertBackward(ws, win, str, n, fail, oobv, narrow) ==
  BackIter(Outcome(OK, ws, n, NoDecode), n, win, str, fail, oobv, narrow)

\* mutant: a byte that cannot be decoded is stored and decoding goes on
DecodeStep_SkipBad(d, str, n, oobv) ==
  IF d.brk THEN d
  ELSE IF StrAt(str, d.i, oobv) # 0 /\ d.i < n
  THEN LET r == PDC_mbtowc(str, d.i, n - d.i, oobv) IN
       IF r.retval <= 0
       THEN [d EXCEPT !.wstr = Append(@, StrAt(str, d.i, oobv) % 256), !.i = @ + 1,
                      !.steps = Append(@, r.retval)]
       ELSE [d EXCEPT !.wstr = Append(@, r.wc), !.i = @ + r.retval,
                      !.steps = Append(@, r.retval)]
  ELSE [d EXCEPT !.brk = TRUE]

\* one iteration of  while (str[i] && i < n) { retval = PDC_mbtowc(p, str + i,
\*   n - i); if (retval <= 0) break; p++; i += retval; }
\* d.wstr is wstr[0 .. p - wstr - 1], d.brk says the loop was left
DecodeStep(d, str, n, oobv) ==
  IF d.brk THEN d
  ELSE IF StrAt(str, d.i, oobv) # 0 /\ d.i < n
  THEN LET r == PDC_mbtowc(str, d.i, n - d.i, oobv) IN
       IF r.retval <= 0 THEN [d EXCEPT !.brk = TRUE, !.steps = Append(@, r.retval)]
       ELSE [d EXCEPT !.wstr = Append(@, r.wc), !.i = @ + r.retval,
                      !.steps = Append(@, r.retval)]
  ELSE [d EXCEPT !.brk = TRUE]

RECURSIVE DecodeIter(_, _, _, _, _)
DecodeIter(d, count, str, n, oobv) ==
  IF count = 0 THEN d
  ELSE IF count = 1 THEN DecodeStep(d, str, n, oobv)
  ELSE Only({DecodeIter(mid, count - (count \div 2), str, n, oobv) :
               mid \in {DecodeIter(d, count \div 2, str, n, oobv)}})

\* p = wstr; i = 0; while (str[i] && i < n) ...   Every iteration consumes a
\* byte before the terminator, so Len(str) iterations reach the loop's exit.
DecodeLoop(str, n, oobv) ==
  DecodeIter(NoDecode, Len(str), str, n, oobv)

\* one iteration of  while (p > wstr) { if (winsch(win, *--p) == ERR) return ERR; }
DecodedStep(o, win, fail) ==
  IF o.rc # OK \/ ~(o.n > 0) THEN o
  ELSE LET q == o.n - 1
           r == winsch(o.ws, win, o.wstr[q + 1], Len(o.calls) + 1, fail)
       IN [o EXCEPT !.rc = r.rc, !.ws = r.ws, !.n = q,
                    !.calls = Append(@, o.wstr[q + 1]), !.idxs = Append(@, q)]

RECURSIVE DecodedIter(_, _, _, _)
DecodedIter(o, count, win, fail) ==
  IF count = 0 THEN o
  ELSE IF count = 1 THEN DecodedStep(o, win, fail)
  ELSE Only({DecodedIter(mid, count - (count \div 2), win, fail) :
               mid \in {DecodedIter(o, count \div 2, win, fail)}})

\* while (p > wstr) { if (winsch(win, *--p) == ERR) return ERR; }
\* d is the decode loop's final state, Len(d.wstr) is p - wstr
InsertDecoded(ws, win, d, fail) ==
  DecodedIter(Outcome(OK, ws, Len(d.wstr), d), Len(d.wstr), win, fail)

\* mutant: the cap is missing
CapCount_None(n) == n

\* if (n > 512) n = 512;
CapCount(n) == IF n > WSTR_CAP THEN WSTR_CAP ELSE n

\* if (!win || !str) return ERR;
Failed(ws) == Outcome(ERR, ws, 0, NoDecode)

\* mutant: str is not checked
winsnstr_NoStrCheck(isWide, ws, win, str, n, fail, oobv) ==
  IF win = NULL THEN Failed(ws)
  ELSE LET len == strlen(str)
           n1 == ClampCount(n, len)
       IN IF isWide
          THEN InsertDecoded(ws, win, DecodeLoop(str, CapCount(n1), oobv), fail)
          ELSE InsertBackward(ws, win, str, n1, fail, oobv, TRUE)

\* int winsnstr(WINDOW *win, const char *str, int n)
winsnstr(isWide, ws, win, str, n, fail, oobv) ==
  IF win = NULL \/ str = NULLSTR THEN Failed(ws)
  ELSE LET len == strlen(str)
           n1 == ClampCount(n, len)
       IN IF isWide
          THEN InsertDecoded(ws, win, DecodeLoop(str, CapCount(n1), oobv), fail)
          ELSE InsertBackward(ws, win, str, n1, fail, oobv, TRUE)

\* for (len = 0, p = wstr; *p; p++) len++;
wcslen(wstr) == ScanIter(wstr, 0, Len(wstr))

\* int wins_nwstr(WINDOW *win, const wchar_t *wstr, int n)
wins_nwstr(ws, win, wstr, n, fail, oobv) ==
  IF win = NULL \/ wstr = NULLSTR THEN Failed(ws)
  ELSE LET len == wcslen(wstr)
           n1 == ClampCount(n, len)
       IN InsertBackward(ws, win, wstr, n1, fail, oobv, FALSE)

\* move(y, x) is wmove(stdscr, y, x)
move(ws, y, x) == wmove(ws, "stdscr", y, x)
\* int insstr(const char *str)
insstr(isWide, ws, str, fail, oobv) ==
  winsnstr(isWide, ws, "stdscr", str, -1, fail, oobv)

\* mutant: the string goes to stdscr, not to win
winsstr_Stdscr(isWide, ws, win, str, fail, oobv) ==
  winsnstr(isWide, ws, "stdscr", str, -1, fail, oobv)

\* int winsstr(WINDOW *win, const char *str)
winsstr(isWide, ws, win, str, fail, oobv) ==
  winsnstr(isWide, ws, win, str, -1, fail, oobv)

\* int mvinsstr(int y, int x, const char *str)
mvinsstr(isWide, ws, y, x, str, fail, oobv) ==
  LET m == move(ws, y, x)
  IN IF m.rc = ERR THEN Failed(ws) ELSE winsnstr(isWide, m.ws, "stdscr", str, -1, fail, oobv)

\* int mvwinsstr(WINDOW *win, int y, int x, const char *str)
mvwinsstr(isWide, ws, win, y, x, str, fail, oobv) ==
  LET m == wmove(ws, win, y, x)
  IN IF m.rc = ERR THEN Failed(ws) ELSE winsnstr(isWide, m.ws, win, str, -1, fail, oobv)

\* int insnstr(const char *str, int n)
insnstr(isWide, ws, str, n, fail, oobv) ==
  winsnstr(isWide, ws, "stdscr", str, n, fail, oobv)

\* int mvinsnstr(int y, int x, const char *str, int n)
mvinsnstr(isWide, ws, y, x, str, n, fail, oobv) ==
  LET m == move(ws, y, x)
  IN IF m.rc = ERR THEN Failed(ws) ELSE winsnstr(isWide, m.ws, "stdscr", str, n, fail, oobv)

\* int mvwinsnstr(WINDOW *win, int y, int x, const char *str, int n)
mvwinsnstr(isWide, ws, win, y, x, str, n, fail, oobv) ==
  LET m == wmove(ws, win, y, x)
  IN IF m.rc = ERR THEN Failed(ws) ELSE winsnstr(isWide, m.ws, win, str, n, fail, oobv)

\* int ins_wstr(const wchar_t *wstr)
ins_wstr(ws, wstr, fail, oobv) ==
  wins_nwstr(ws, "stdscr", wstr, -1, fail, oobv)

\* int wins_wstr(WINDOW *win, const wchar_t *wstr)
wins_wstr(ws, win, wstr, fail, oobv) ==
  wins_nwstr(ws, win, wstr, -1, fail, oobv)

\* int mvins_wstr(int y, int x, const wchar_t *wstr)
mvins_wstr(ws, y, x, wstr, fail, oobv) ==
  LET m == move(ws, y, x)
  IN IF m.rc = ERR THEN Failed(ws) ELSE wins_nwstr(m.ws, "stdscr", wstr, -1, fail, oobv)

\* int mvwins_wstr(WINDOW *win, int y, int x, const wchar_t *wstr)
mvwins_wstr(ws, win, y, x, wstr, fail, oobv) ==
  LET m == wmove(ws, win, y, x)
  IN IF m.rc = ERR THEN Failed(ws) ELSE wins_nwstr(m.ws, win, wstr, -1, fail, oobv)

\* int ins_nwstr(const wchar_t *wstr, int n)
ins_nwstr(ws, wstr, n, fail, oobv) ==
  wins_nwstr(ws, "stdscr", wstr, n, fail, oobv)

\* int mvins_nwstr(int y, int x, const wchar_t *wstr, int n)
mvins_nwstr(ws, y, x, wstr, n, fail, oobv) ==
  LET m == move(ws, y, x)
  IN IF m.rc = ERR THEN Failed(ws) ELSE wins_nwstr(m.ws, "stdscr", wstr, n, fail, oobv)

\* int mvwins_nwstr(WINDOW *win, int y, int x, const wchar_t *wstr, int n)
mvwins_nwstr(ws, win, y, x, wstr, n, fail, oobv) ==
  LET m == wmove(ws, win, y, x)
  IN IF m.rc = ERR THEN Failed(ws) ELSE wins_nwstr(m.ws, win, wstr, n, fail, oobv)

\* ------------------------------------------------------------------ inputs
WinArgs == {NULL, "w1"}
YX == {<<MaxY - 1, 1>>, <<MaxY, 0>>}
NoOob == <<0>>

NRange(s) == IF s = NULLSTR THEN -1..(MaxLen + 2) ELSE -1..(strlen(s) + 2)

\* <<source, n, failing call>>
LimArgs(Short, Long) ==
  UNION ({ {<<s, n, f>> : n \in NRange(s), f \in 0..MaxFail} : s \in Short \cup {NULLSTR} }
         \cup { {<<s, n, 0>> : n \in {-1, strlen(s) + 1}} : s \in Long })
\* <<source, failing call>>
StrArgs(Short, Long) ==
  {<<s, f>> : s \in Short \cup {NULLSTR}, f \in 0..MaxFail} \cup {<<s, 0>> : s \in Long}

\* the outcomes of the reads past the terminator the request can make
OobSet(decodes, s, n) ==
  IF ~decodes /\ s # NULLSTR /\ n > strlen(s) + 1 THEN OobOutcomes ELSE {NoOob}

NoReq == [op |-> "none", win |-> NULL, mv |-> FALSE, y |-> 0, x |-> 0,
          str |-> NULLSTR, n |-> 0, fail |-> 0, oobv |-> NoOob]

InitLine(w, r) ==
  IF (w = "stdscr") = (r = 0)
  THEN [x \in Cols |-> 32]
  ELSE [x \in Cols |-> 1000 + (IF w = "w1" THEN 100 ELSE 0) + 10 * r + x]

Init ==
  /\ wide \in BOOLEAN
  /\ \E cy \in Rows, cx \in Cols :
       wins = [w \in WinIds |->
                 [cury |-> IF w = "stdscr" THEN cy ELSE MaxY - 1 - cy,
                  curx |-> IF w = "stdscr" THEN cx ELSE MaxX - 1 - cx,
                  y |-> [r \in Rows |-> InitLine(w, r)]]]
  /\ pc = "idle"
  /\ req = NoReq
  /\ rc = OK
  /\ calls = << >>
  /\ idxs = << >>
  /\ wbuf = << >>
  /\ steps = << >>
  /\ old = wins

\* the request is recorded and its outcome o becomes the state
Return(op, win, mv, y, x, str, n, fail, oobv, o) ==
  /\ pc' = "done"
  /\ req' = [op |-> op, win |-> win, mv |-> mv, y |-> y, x |-> x,
             str |-> str, n |-> n, fail |-> fail, oobv |-> oobv]
  /\ rc' = o.rc
  /\ wins' = o.ws
  /\ calls' = o.calls
  /\ idxs' = o.idxs
  /\ wbuf' = o.wstr
  /\ steps' = o.steps
  /\ old' = wins
  /\ UNCHANGED wide

Call_winsnstr ==
  /\ pc = "idle"
  /\ \E win \in WinArgs, a \in LimArgs(ShortStrs, LongStrs) :
       \E v \in OobSet(wide, a[1], a[2]) :
         Return("winsnstr", win, FALSE, 0, 0, a[1], a[2], a[3], v,
                winsnstr(wide, wins, win, a[1], a[2], a[3], v))

Call_insstr ==
  /\ pc = "idle"
  /\ \E a \in StrArgs(ShortStrs, LongStrs) :
       \E v \in OobSet(wide, a[1], -1) :
         Return("insstr", "stdscr", FALSE, 0, 0, a[1], -1, a[2], v,
                insstr(wide, wins, a[1], a[2], v))

Call_winsstr ==
  /\ pc = "idle"
  /\ \E win \in WinArgs, a \in StrArgs(ShortStrs, LongStrs) :
       \E v \in OobSet(wide, a[1], -1) :
         Return("winsstr", win, FALSE, 0, 0, a[1], -1, a[2], v,
                winsstr(wide, wins, win, a[1], a[2], v))

Call_mvinsstr ==
  /\ pc = "idle"
  /\ \E p \in YX, a \in StrArgs(ShortStrs, LongStrs) :
       \E v \in OobSet(wide, a[1], -1) :
         Return("mvinsstr", "stdscr", TRUE, p[1], p[2], a[1], -1, a[2], v,
                mvinsstr(wide, wins, p[1], p[2], a[1], a[2], v))

Call_mvwinsstr ==
  /\ pc = "idle"
  /\ \E win \in WinArgs, p \in YX, a \in StrArgs(ShortStrs, LongStrs) :
       \E v \in OobSet(wide, a[1], -1) :
         Return("mvwinsstr", win, TRUE, p[1], p[2], a[1], -1, a[2], v,
                mvwinsstr(wide, wins, win, p[1], p[2], a[1], a[2], v))

Call_insnstr ==
  /\ pc = "idle"
  /\ \E a \in LimArgs(ShortStrs, LongStrs) :
       \E v \in OobSet(wide, a[1], a[2]) :
         Return("insnstr", "stdscr", FALSE, 0, 0, a[1], a[2], a[3], v,
                insnstr(wide, wins, a[1], a[2], a[3], v))

Call_mvinsnstr ==
  /\ pc = "idle"
  /\ \E p \in YX, a \in LimArgs(ShortStrs, LongStrs) :
       \E v \in OobSet(wide, a[1], a[2]) :
         Return("mvinsnstr", "stdscr", TRUE, p[1], p[2], a[1], a[2], a[3], v,
                mvinsnstr(wide, wins, p[1], p[2], a[1], a[2], a[3], v))

Call_mvwinsnstr ==
  /\ pc = "idle"
  /\ \E win \in WinArgs, p \in YX, a \in LimArgs(ShortStrs, LongStrs) :
       \E v \in OobSet(wide, a[1], a[2]) :
         Return("mvwinsnstr", win, TRUE, p[1], p[2], a[1], a[2], a[3], v,
                mvwinsnstr(wide, wins, win, p[1], p[2], a[1], a[2], a[3], v))

Call_wins_nwstr ==
  /\ pc = "idle"
  /\ wide
  /\ \E win \in WinArgs, a \in LimArgs(ShortWStrs, LongWStrs) :
       \E v \in OobSet(FALSE, a[1], a[2]) :
         Return("wins_nwstr", win, FALSE, 0, 0, a[1], a[2], a[3], v,
                wins_nwstr(wins, win, a[1], a[2], a[3], v))

Call_ins_wstr ==
  /\ pc = "idle"
  /\ wide
  /\ \E a \in StrArgs(ShortWStrs, LongWStrs) :
       \E v \in OobSet(FALSE, a[1], -1) :
         Return("ins_wstr", "stdscr", FALSE, 0, 0, a[1], -1, a[2], v,
                ins_wstr(wins, a[1], a[2], v))

Call_wins_wstr ==
  /\ pc = "idle"
  /\ wide
  /\ \E win \in WinArgs, a \in StrArgs(ShortWStrs, LongWStrs) :
       \E v \in OobSet(FALSE, a[1], -1) :
         Return("wins_wstr", win, FALSE, 0, 0, a[1], -1, a[2], v,
                wins_wstr(wins, win, a[1], a[2], v))

Call_mvins_wstr ==
  /\ pc = "idle"
  /\ wide
  /\ \E p \in YX, a \in StrArgs(ShortWStrs, LongWStrs) :
       \E v \in OobSet(FALSE, a[1], -1) :
         Return("mvins_wstr", "stdscr", TRUE, p[1], p[2], a[1], -1, a[2], v,
                mvins_wstr(wins, p[1], p[2], a[1], a[2], v))

Call_mvwins_wstr ==
  /\ pc = "idle"
  /\ wide
  /\ \E win \in WinArgs, p \in YX, a \in StrArgs(ShortWStrs, LongWStrs) :
       \E v \in OobSet(FALSE, a[1], -1) :
         Return("mvwins_wstr", win, TRUE, p[1], p[2], a[1], -1, a[2], v,
                mvwins_wstr(wins, win, p[1], p[2], a[1], a[2], v))

Call_ins_nwstr ==
  /\ pc = "idle"
  /\ wide
  /\ \E a \in LimArgs(ShortWStrs, LongWStrs) :
       \E v \in OobSet(FALSE, a[1], a[2]) :
         Return("ins_nwstr", "stdscr", FALSE, 0, 0, a[1], a[2], a[3], v,
                ins_nwstr(wins, a[1], a[2], a[3], v))

Call_mvins_nwstr ==
  /\ pc = "idle"
  /\ wide
  /\ \E p \in YX, a \in LimArgs(ShortWStrs, LongWStrs) :
       \E v \in OobSet(FALSE, a[1], a[2]) :
         Return("mvins_nwstr", "stdscr", TRUE, p[1], p[2], a[1], a[2], a[3], v,
                mvins_nwstr(wins, p[1], p[2], a[1], a[2], a[3], v))

Call_mvwins_nwstr ==
  /\ pc = "idle"
  /\ wide
  /\ \E win \in WinArgs, p \in YX, a \in LimArgs(ShortWStrs, LongWStrs) :
       \E v \in OobSet(FALSE, a[1], a[2]) :
         Return("mvwins_nwstr", win, TRUE, p[1], p[2], a[1], a[2], a[3], v,
                mvwins_nwstr(wins, win, p[1], p[2], a[1], a[2], a[3], v))

Next ==
  \/ Call_winsnstr
  \/ Call_insstr
  \/ Call_winsstr
  \/ Call_mvinsstr
  \/ Call_mvwinsstr
  \/ Call_insnstr
  \/ Call_mvinsnstr
  \/ Call_mvwinsnstr
  \/ Call_wins_nwstr
  \/ Call_ins_wstr
  \/ Call_wins_wstr
  \/ Call_mvins_wstr
  \/ Call_mvwins_wstr
  \/ Call_ins_nwstr
  \/ Call_mvins_nwstr
  \/ Call_mvwins_nwstr

Spec == Init /\ [][Next]_vars

\* ------------------------------------------------- the request, as recorded
Done == pc = "done"

WideSrcOps == {"wins_nwstr", "ins_wstr", "wins_wstr", "mvins_wstr", "mvwins_wstr",
               "ins_nwstr", "mvins_nwstr", "mvwins_nwstr"}

\* which loop serves the request
Path == IF req.op \in WideSrcOps THEN "wsrc" ELSE IF wide THEN "decode" ELSE "narrow"

MoveOk == req.win # NULL /\ req.y \in Rows /\ req.x \in Cols
\* the request got to winsnstr / wins_nwstr with a window and a source
WellFormed == Done /\ req.win # NULL /\ req.str # NULLSTR /\ (req.mv => MoveOk)

\* the cursor at the time of the insertion
Row == IF req.mv THEN req.y ELSE old[req.win].cury
Col == IF req.mv THEN req.x ELSE old[req.win].curx
OldLine == old[req.win].y[Row]
NewLine == wins[req.win].y[Row]

SrcLen == Len(req.str) - 1          \* units before the terminator
SingleByte == \A k \in 1..SrcLen : req.str[k] \in 1..127
\* the unit at source index i, as the cell receives it
SrcUnit(i) ==
  LET c == IF i < Len(req.str) THEN req.str[i + 1] ELSE req.oobv[1]
  IN IF Path = "narrow" THEN (c + 256) % 256 ELSE c

Reverse(s) == [k \in 1..Len(s) |-> s[Len(s) + 1 - k]]
Min(a, b) == IF a < b THEN a ELSE b

\* the line L after s is put in at column c in one step
AtomicInsert(L, c, s) ==
  [x \in Cols |-> IF x < c THEN L[x]
                  ELSE IF x - c < Len(s) THEN s[x - c + 1]
                  ELSE L[x - Len(s)]]

\* no winsch call of the request failed
NoFail == req.fail = 0 \/ req.fail > Len(calls)
NoStoppage == \A k \in 1..Len(steps) : steps[k] > 0

\* the units the request selected, first to last
Selected ==
  IF Path = "decode" THEN wbuf ELSE [k \in 1..Len(calls) |-> SrcUnit(k - 1)]

\* ------------------------------------------------------------------ claims
\* C1: a successful insert, made of single-cell inserts, leaves the line as
\* one insertion of the selected units would: the cells left of the cursor
\* as they were, the selected units in reading order from the cursor column,
\* then the old cells moved right, what passes the last column dropped.  In
\* the decoding path the selected units of single-byte text are its bytes.
C1_AtomicInsertion ==
  (WellFormed /\ rc = OK) =>
     /\ Len(calls) = Len(Selected)
     /\ NewLine = AtomicInsert(OldLine, Col, Selected)
     /\ (Path = "decode" /\ SingleByte) =>
           \A k \in 1..Len(wbuf) : wbuf[k] = req.str[k]

\* "AB" put into an empty line reads "AB" at the cursor
C1_Witness ==
  /\ WellFormed /\ rc = OK
  /\ req.op = "insstr" /\ req.str = <<65, 66, 0>>
  /\ \A x \in Cols : OldLine[x] = 32
  /\ Col + 1 \in Cols
  /\ NewLine[Col] = 65 /\ NewLine[Col + 1] = 66

\* C2: with 0 <= limit <= source length, no failing insert and no decode
\* stoppage, exactly `limit` single-cell inserts are made, of the first
\* `limit` source units.
C2_ExactlyLimit ==
  (WellFormed /\ req.n >= 0 /\ req.n <= SrcLen /\ rc = OK /\ NoStoppage
     /\ (Path = "decode" => SingleByte)) =>
     /\ Len(calls) = req.n
     /\ \A k \in 1..Len(calls) : calls[k] = SrcUnit(req.n - k)

\* C3: with limit > source length the count is the source length: that many
\* inserts are made (512 at most in the decoding path) and no unit at or past
\* the terminator is read or inserted.
C3_ClampedToLength ==
  (WellFormed /\ req.n > SrcLen /\ NoFail /\ (Path = "decode" => SingleByte)) =>
     /\ rc = OK
     /\ Len(calls) = Min(SrcLen, IF Path = "decode" THEN WSTR_CAP ELSE SrcLen)
     /\ \A k \in 1..Len(idxs) : idxs[k] < SrcLen

\* C4: with limit < 0 and no failing insert the number of units inserted is
\* the source length; in the decoding path it is min(source length, 512) for
\* single-byte text.
C4_NegativeLimitWholeSource ==
  (WellFormed /\ req.n < 0 /\ NoFail) =>
     /\ rc = OK
     /\ Path # "decode" => Len(calls) = SrcLen
     /\ (Path = "decode" /\ SingleByte) => Len(calls) = Min(SrcLen, WSTR_CAP)

C4_Witness ==
  /\ WellFormed /\ req.op = "insstr" /\ ~wide
  /\ rc = OK /\ SrcLen = LongLen /\ Len(calls) = LongLen

\* C5: when the k-th single-cell insert of a request fails, k-1 units are in
\* the line and stay there, the request returns ERR and makes no further
\* single-cell insert.
C5_FailureStopsNoRollback ==
  (Done /\ req.fail >= 1 /\ Len(calls) >= req.fail) =>
     /\ Len(calls) = req.fail
     /\ rc = ERR
     /\ req.win # NULL
     /\ NewLine = AtomicInsert(OldLine, Col, Reverse(SubSeq(calls, 1, req.fail - 1)))

C5_Witness ==
  /\ Done /\ req.fail = 2 /\ Len(calls) = 2 /\ rc = ERR
  /\ NewLine # OldLine

\* C6: a null window or a null source gives ERR, no single-cell insert and
\* an unchanged window state, whatever the limit.
C6_NullArgument ==
  (Done /\ (req.win = NULL \/ req.str = NULLSTR)) =>
     /\ rc = ERR
     /\ calls = << >>
     /\ \A w \in WinIds : wins[w].y = old[w].y
     /\ ~req.mv => wins = old

C6_Witness ==
  /\ Done /\ req.op = "wins_nwstr" /\ req.win = "w1" /\ req.str = NULLSTR
  /\ req.n = 1 /\ rc = ERR

\* C7: a request, succeeding or failing, leaves every cursor where it was
\* (where the move of a mv entry point put it) and changes no cell but those
\* of the cursor line from the cursor column on.
C7_Frame ==
  Done =>
    \A w \in WinIds :
       /\ wins[w].cury = IF req.mv /\ MoveOk /\ w = req.win THEN req.y ELSE old[w].cury
       /\ wins[w].curx = IF req.mv /\ MoveOk /\ w = req.win THEN req.x ELSE old[w].curx
       /\ \A r \in Rows, x \in Cols :
             (w # req.win \/ r # Row \/ x < Col) => wins[w].y[r][x] = old[w].y[r][x]

C7_Witness ==
  /\ WellFormed /\ req.op = "winsstr" /\ rc = ERR /\ Len(calls) = 2
  /\ Col > 0 /\ NewLine # OldLine

\* C8: in the decoding path at most 512 units are decoded and at most 512
\* single-cell inserts are made, so the last write into wstr[513] is at
\* index 511 at most.
C8_DecodeCap ==
  (Done /\ Path = "decode") =>
     /\ Len(wbuf) <= WSTR_CAP
     /\ Len(calls) <= WSTR_CAP
     /\ Len(wbuf) < WSTR_SIZE

C8_Witness ==
  /\ WellFormed /\ Path = "decode" /\ req.n = -1
  /\ SrcLen = LongLen /\ Len(wbuf) = WSTR_CAP /\ Len(calls) = WSTR_CAP /\ rc = OK

\* C9: when PDC_mbtowc returns a non-positive value after j units were
\* decoded, decoding stops there, exactly those j units are inserted, and
\* the request returns OK unless a single-cell insert fails.
C9_DecodeStoppage ==
  (Done /\ Path = "decode" /\ steps # << >> /\ steps[Len(steps)] <= 0) =>
     LET j == Len(steps) - 1 IN
     /\ \A k \in 1..j : steps[k] > 0
     /\ Len(wbuf) = j
     /\ NoFail => (rc = OK /\ calls = Reverse(wbuf))
     /\ rc = ERR => (req.fail >= 1 /\ req.fail = Len(calls))

\* a two-byte character cut by the cap: the 511 units before it are inserted
C9_Witness ==
  /\ WellFormed /\ Path = "decode" /\ req.str = LongMb
  /\ steps[Len(steps)] = -1 /\ Len(steps) = WSTR_CAP
  /\ rc = OK /\ Len(calls) = WSTR_CAP - 1

\* C10: the single-cell insert is called once per selected unit, in strictly
\* reverse order: each call carries the unit just before the one of the call
\* before it, and the last call of a successful request carries the first.
C10_ReverseOrder ==
  WellFormed =>
     /\ Len(idxs) = Len(calls)
     /\ \A k \in 1..Len(calls) :
           /\ idxs[k] = idxs[1] - (k - 1)
           /\ calls[k] = IF Path = "decode" THEN wbuf[idxs[k] + 1] ELSE SrcUnit(idxs[k])
     /\ (Path = "decode" /\ calls # << >>) => idxs[1] = Len(wbuf) - 1
     /\ (rc = OK /\ calls # << >>) => idxs[Len(idxs)] = 0

C10_Witness ==
  /\ WellFormed /\ req.op = "wins_nwstr" /\ rc = OK
  /\ req.str = <<65, 233, 0>> /\ calls = <<233, 65>> /\ idxs = <<1, 0>>

====
